---- MODULE Spec2Model ----
(***************************************************************************)
(* Model of src/steps/remote/vagrant.rs: discovery of Vagrant boxes        *)
(* (collect_boxes / Vagrant::get_boxes), the per-box upgrade with its      *)
(* TemporaryPowerOn guard (topgrade_vagrant_box) and the global box        *)
(* update + prune pass (upgrade_vagrant_boxes).                            *)
(*                                                                         *)
(* One behaviour is one call of one of the three entry points, or of       *)
(* get_boxes on one status output.  Every external process invocation is   *)
(* one step; `calls' is the log of the invocations made so far, in order.  *)
(***************************************************************************)
EXTENDS Integers, Sequences, FiniteSets, TLC

VARIABLES
    pc,             \* position inside the running entry point
    entry,          \* which entry point this behaviour runs
    tool_found,     \* does utils::require("vagrant") succeed
    dry_run,        \* ctx.run_type() is the dry-run executor
    power_on,       \* config().vagrant_power_on(): Option<bool>
    always_suspend, \* config().vagrant_always_suspend(): Option<bool>
    yes,            \* config().yes(Step::Vagrant)
    vagrant_box,    \* the VagrantBox handed to topgrade_vagrant_box
    box_state,      \* the power state the box really is in
    poweron,        \* the local _poweron: "None" or "Some" (a live guard)
    ssh_result,     \* value of the tail expression of topgrade_vagrant_box
    calls,          \* log of process invocations, oldest first
    ret,            \* what the entry point returned ("Pending" while running)
    outdated,       \* stdout of `vagrant box outdated --global', as lines
    captures,       \* the matches captures_iter has still to yield
    found,          \* the local `found' of upgrade_vagrant_boxes
    printed,        \* the message upgrade_vagrant_boxes printed, if any
    directories,    \* config().vagrant_directories(): Option<Vec<String>>
    remaining,      \* the directories the loop of collect_boxes has to visit
    result,         \* the local `result' of collect_boxes
    logged,         \* the directories an error!(..) was logged for
    discoveries,    \* what get_boxes was given and gave, oldest first
    status_exit,    \* exit code of a `vagrant status' parsed on its own
    status_out,     \* its stdout, as lines
    parsed          \* what get_boxes made of it

vars == << pc, entry, tool_found, dry_run, power_on, always_suspend, yes,
           vagrant_box, box_state, poweron, ssh_result, calls, ret,
           outdated, captures, found, printed,
           directories, remaining, result, logged, discoveries,
           status_exit, status_out, parsed >>

\* The state only topgrade_vagrant_box touches, and only
\* upgrade_vagrant_boxes touches.
boxVars == << vagrant_box, box_state, poweron, ssh_result >>
upgradeVars == << outdated, captures, found, printed >>
collectVars == << remaining, result, logged, discoveries >>
parseVars == << status_exit, status_out, parsed >>
config == << entry, tool_found, dry_run, power_on, always_suspend, yes,
             directories >>
notBox == << config, collectVars, parseVars, upgradeVars >>
notUpgrade == << config, collectVars, parseVars, boxVars >>
notCollect == << config, parseVars, boxVars, upgradeVars >>

----------------------------------------------------------------------------
(* Data model                                                              *)

BoxStatus == {"PowerOff", "Running", "Saved", "Aborted"}

powered_on(status) == status = "Running"

\* Option<bool> as returned by the configuration accessors.
OptionBool == {"None", "Some(true)", "Some(false)"}

unwrap_or(opt, default) ==
    IF opt = "None" THEN default ELSE opt = "Some(true)"

\* Box names and the directories (as sequences of path segments) they live in.
BoxNames == {"default", "web"}
Directories == {<<"vm", "a">>, <<"vm", "b">>}

file_name(path) == path[Len(path)]

smart_name(b) ==
    IF b.name = "default" THEN file_name(b.path) ELSE b.name

VagrantBox == [path : Directories, name : BoxNames, initial_status : BoxStatus]

\* Exit codes an external process can end with.
ExitCodes == {0, 1}

\* The failure a non-zero exit of each invocation is reported as.
ExitError ==
    [up |-> "Err(up)", resume |-> "Err(resume)", halt |-> "Err(halt)",
     suspend |-> "Err(suspend)", ssh |-> "Err(ssh)", status |-> "Err(status)",
     outdated |-> "Err(outdated)", update |-> "Err(update)",
     prune |-> "Err(prune)"]

Errors == {ExitError[k] : k \in DOMAIN ExitError}

\* status_checked() / output_checked_utf8(): Ok for a zero exit, the
\* failure of that invocation otherwise.
status_checked(subcommand, exit) ==
    IF exit = 0 THEN "Ok" ELSE ExitError[subcommand]

\* Option<Vec<String>>: the configured directories.
NoDirectories == [some |-> FALSE, dirs |-> << >>]
SomeDirectories(ds) == [some |-> TRUE, dirs |-> ds]

\* Result<Vec<VagrantBox>> of get_boxes, or the panic of an unwrap().
NotParsed == [kind |-> "Pending", boxes |-> << >>]
OkBoxes(bs) == [kind |-> "Ok", boxes |-> bs]
ErrBoxes == [kind |-> "Err", boxes |-> << >>]
PanicBoxes == [kind |-> "Panic", boxes |-> << >>]

----------------------------------------------------------------------------
(* The external tool: what a power transition does to a box.               *)

PowerEffect(subcommand, state) ==
    CASE subcommand = "up"      -> "Running"
      [] subcommand = "resume"  -> "Running"
      [] subcommand = "halt"    -> "PowerOff"
      [] subcommand = "suspend" -> "Saved"
      [] OTHER                  -> state

\* ctx.run_type().execute(..): the dry-run executor spawns nothing and
\* reports success; the real one spawns the process.
ExecutorExits == IF dry_run THEN {0} ELSE ExitCodes

\* One logged invocation.
Call(args, dir, exit) ==
    [args |-> args, dir |-> dir, exit |-> exit, dry |-> dry_run]

\* Command::new(..): a process spawned directly, also in a dry run.
CommandCall(args, dir, exit) ==
    [args |-> args, dir |-> dir, exit |-> exit, dry |-> FALSE]

\* State of the box after a power transition that ended with `exit':
\* a successful real run takes effect; a dry run spawns nothing and a
\* failed run leaves the box as it was.
AfterTransition(subcommand, exit) ==
    IF ~dry_run /\ exit = 0 THEN PowerEffect(subcommand, box_state)
    ELSE box_state

----------------------------------------------------------------------------
(* TemporaryPowerOn                                                        *)

\* A create that boots every box from cold.
CreateSubcommand_AlwaysUp(status) ==
    IF status = "Running" THEN "unreachable" ELSE "up"

\* TemporaryPowerOn::create: the power-up subcommand.
CreateSubcommand(status) ==
    CASE status \in {"PowerOff", "Aborted"} -> "up"
      [] status = "Saved"                   -> "resume"
      [] OTHER                              -> "unreachable"

\* A restoration that halts whatever the box was.
DropSubcommand_AlwaysHalts(status) ==
    IF unwrap_or(always_suspend, FALSE) THEN "suspend"
    ELSE IF status = "Running" THEN "unreachable" ELSE "halt"

\* A restoration that forgets the always-suspend policy.
DropSubcommand_IgnoresPolicy(status) ==
    CASE status \in {"PowerOff", "Aborted"} -> "halt"
      [] status = "Saved"                   -> "suspend"
      [] OTHER                              -> "unreachable"

\* Drop for TemporaryPowerOn: the restoration subcommand.
DropSubcommand(status) ==
    IF unwrap_or(always_suspend, FALSE) THEN "suspend"
    ELSE CASE status \in {"PowerOff", "Aborted"} -> "halt"
           [] status = "Saved"                   -> "suspend"
           [] OTHER                              -> "unreachable"

----------------------------------------------------------------------------
(* topgrade_vagrant_box                                                    *)

\* The in-guest command line.
SshCommand(b) ==
    << "env", "TOPGRADE_PREFIX", smart_name(b), "topgrade" >>
        \o (IF yes THEN << "-y" >> ELSE << >>)

\* An entry that goes on to the in-guest command without powering up.
EnterBranch_ForgetsPowerUp(status) ==
    IF ~powered_on(status) /\ ~unwrap_or(power_on, TRUE)
      THEN "skip" ELSE "box_ssh"

\* An entry that never skips a powered-off box.
EnterBranch_NeverSkips(status) ==
    IF ~powered_on(status) THEN "box_create" ELSE "box_ssh"

\* An entry that takes a guard for every box it does not skip.
EnterBranch_AlwaysGuards(status) ==
    IF ~powered_on(status) /\ ~unwrap_or(power_on, TRUE)
      THEN "skip" ELSE "box_create"

\* Where control goes once the tool is resolved (lines 186-199): the skip
\* return, the creation of a guard, or straight on to the in-guest command.
EnterBranch(status) ==
    IF ~powered_on(status)
      THEN IF ~unwrap_or(power_on, TRUE) THEN "skip" ELSE "box_create"
      ELSE "box_ssh"

\* An entry that decides to skip before it resolves the tool.
BoxEnter_SkipsFirst ==
    /\ pc = "box_start"
    /\ IF EnterBranch(vagrant_box.initial_status) = "skip"
         THEN /\ ret' = "SkipStep"
              /\ pc' = "done"
         ELSE IF ~tool_found
           THEN /\ ret' = "ToolNotFound"
                /\ pc' = "done"
           ELSE /\ ret' = ret
                /\ pc' = EnterBranch(vagrant_box.initial_status)
    /\ UNCHANGED << notBox, boxVars, calls >>

\* Lines 180-199: resolve the tool, then skip, power on or go straight on.
BoxEnter ==
    /\ pc = "box_start"
    /\ IF ~tool_found
         THEN /\ ret' = "ToolNotFound"
              /\ pc' = "done"
         ELSE IF EnterBranch(vagrant_box.initial_status) = "skip"
           THEN /\ ret' = "SkipStep"
                /\ pc' = "done"
           ELSE /\ ret' = ret
                /\ pc' = EnterBranch(vagrant_box.initial_status)
    /\ UNCHANGED << notBox, boxVars, calls >>

\* A create that drops the result of the power-up invocation.
CreateResult_Ignored(subcommand, exit) == "Ok"

\* Line 121: `.status_checked()?' ends create with the failure of the
\* power-up invocation.
CreateResult(subcommand, exit) == status_checked(subcommand, exit)

\* Line 195 and TemporaryPowerOn::create (110-127): the power-up
\* invocation; `?' returns its failure, success leaves a guard in _poweron.
\* A Running box hits unreachable!() and panics before any invocation.
BoxCreate ==
    /\ pc = "box_create"
    /\ LET sub == CreateSubcommand(vagrant_box.initial_status) IN
       IF sub = "unreachable"
         THEN /\ ret' = "Panic"
              /\ pc' = "done"
              /\ UNCHANGED << calls, box_state, poweron >>
         ELSE \E exit \in ExecutorExits :
                /\ calls' = Append(calls,
                       Call(<< sub, vagrant_box.name >>, vagrant_box.path, exit))
                /\ box_state' = AfterTransition(sub, exit)
                /\ IF CreateResult(sub, exit) # "Ok"
                     THEN /\ ret' = CreateResult(sub, exit)
                          /\ poweron' = poweron
                          /\ pc' = "done"
                     ELSE /\ ret' = ret
                          /\ poweron' = "Some"
                          /\ pc' = "box_ssh"
    /\ UNCHANGED << notBox, vagrant_box, ssh_result >>

\* A cleanup that only runs on the success path.
ScopeExit_LeaksOnError(guard, tail) ==
    IF guard = "Some" /\ tail = "Ok" THEN "box_drop" ELSE "done"

\* Lines 185 and 210: _poweron lives until the end of the function, so a
\* guard it holds is dropped after the tail expression, whatever its value.
ScopeExit(guard, tail) == IF guard = "Some" THEN "box_drop" ELSE "done"

\* Lines 200-209: the in-guest command, the tail expression of the function.
\* With no guard alive the function returns its value at once.
BoxSsh ==
    /\ pc = "box_ssh"
    /\ \E exit \in ExecutorExits :
         LET tail == status_checked("ssh", exit)
             next == ScopeExit(poweron, tail) IN
         /\ calls' = Append(calls,
                Call(<< "ssh", "-c" >> \o SshCommand(vagrant_box),
                     vagrant_box.path, exit))
         /\ ssh_result' = tail
         /\ pc' = next
         /\ ret' = IF next = "done" THEN tail ELSE ret
    /\ UNCHANGED << notBox, vagrant_box, box_state, poweron >>

\* A drop whose failure replaces the result of the function.
DropReturn_Propagates(tail, restored) ==
    IF restored # "Ok" THEN restored ELSE tail

\* Lines 143-149: `.status_checked().ok()' discards the result of the
\* restoration; the function returns the value of its tail expression.
DropReturn(tail, restored) == tail

\* Line 210 and Drop for TemporaryPowerOn (130-151): the guard goes out of
\* scope after the tail expression was evaluated.
BoxDrop ==
    /\ pc = "box_drop"
    /\ LET sub == DropSubcommand(vagrant_box.initial_status) IN
       IF sub = "unreachable"
         THEN /\ ret' = "Panic"
              /\ UNCHANGED << calls, box_state >>
         ELSE \E exit \in ExecutorExits :
                /\ calls' = Append(calls,
                       Call(<< sub, vagrant_box.name >>, vagrant_box.path, exit))
                /\ box_state' = AfterTransition(sub, exit)
                /\ ret' = DropReturn(ssh_result, status_checked(sub, exit))
    /\ poweron' = "None"
    /\ pc' = "done"
    /\ UNCHANGED << notBox, vagrant_box, ssh_result >>

InitBox ==
    /\ entry = "topgrade_vagrant_box"
    /\ pc = "box_start"
    /\ tool_found \in BOOLEAN
    /\ dry_run \in BOOLEAN
    /\ power_on \in OptionBool
    /\ always_suspend \in OptionBool
    /\ yes \in BOOLEAN
    /\ vagrant_box \in VagrantBox
    /\ box_state = vagrant_box.initial_status
    /\ poweron = "None"
    /\ ssh_result = "Pending"
    /\ calls = << >>
    /\ ret = "Pending"
    /\ outdated = << >>
    /\ captures = << >>
    /\ found = FALSE
    /\ printed = ""
    /\ directories = NoDirectories
    /\ remaining = << >>
    /\ result = << >>
    /\ logged = << >>
    /\ discoveries = << >>
    /\ status_exit = 0
    /\ status_out = << >>
    /\ parsed = NotParsed

----------------------------------------------------------------------------
(* Vagrant::get_boxes                                                      *)

\* stdout of `vagrant status' is a sequence of lines (split at '\n') and a
\* line a sequence of pieces: a run of blanks " ", a carriage return "\r",
\* or a word; words are separated by a blank or a carriage return.
Whitespace == {" ", "\r"}

LinePowerOff == << "default", " ", "poweroff", " ", "(virtualbox)" >>
LineRunningCr == << "web", " ", "running", " ", "(virtualbox)", "\r" >>
LineSaved == << "db", " ", "saved" >>
LineAborted == << "old", " ", "aborted" >>
LineNotCreated == << "web", " ", "not", " ", "created", " ", "(virtualbox)" >>
LineOneToken == << "lonely" >>
LineBlank == << " " >>
LineEmpty == << >>
LineCr == << "\r" >>
LineUpper == << "default", " ", "PowerOff" >>
LineShout == << "web", " ", "RUNNING" >>
LineCapital == << "db", " ", "Saved", " ", "(virtualbox)" >>
LineCrSaved == << "\r", "db", " ", "saved" >>
LineHeader == << "Current", " ", "machine", " ", "states:" >>

\* A from_str that ignores the case of the keyword.
from_str_IgnoresCase(keyword) ==
    CASE keyword \in {"poweroff", "PowerOff", "POWEROFF"} -> "PowerOff"
      [] keyword \in {"running", "Running", "RUNNING"}    -> "Running"
      [] keyword \in {"saved", "Saved", "SAVED"}          -> "Saved"
      [] keyword \in {"aborted", "Aborted", "ABORTED"}    -> "Aborted"
      [] OTHER                                            -> "Err"

\* BoxStatus::from_str as derived by strum with serialize_all =
\* "lowercase": the keyword has to be the lower-case name of a variant.
from_str(keyword) ==
    CASE keyword = "poweroff" -> "PowerOff"
      [] keyword = "running"  -> "Running"
      [] keyword = "saved"    -> "Saved"
      [] keyword = "aborted"  -> "Aborted"
      [] OTHER                -> "Err"

is_empty(line) == line = << >>
starts_with_cr(line) == Len(line) >= 1 /\ line[1] = "\r"

split_whitespace(line) == SelectSeq(line, LAMBDA piece : piece \notin Whitespace)

\* A skip that leaves the last header line in.
skip_OneShort(lines, n) == SubSeq(lines, n, Len(lines))

\* .skip(n)
skip(lines, n) == SubSeq(lines, n + 1, Len(lines))

\* An end of section that only a blank line marks.
EndsSection_EmptyOnly(line) == is_empty(line)

\* Line 73: the line ends the box section.
EndsSection(line) == is_empty(line) \/ starts_with_cr(line)

\* .take_while(|line| !(line.is_empty() || line.starts_with('\r')))
RECURSIVE take_while(_)
take_while(lines) ==
    IF lines = << >> \/ EndsSection(Head(lines)) THEN << >>
    ELSE << Head(lines) >> \o take_while(Tail(lines))

\* Lines 78-79: one of the three unwrap() calls of the closure panics: no
\* first token, no second token, or a keyword from_str rejects.
LinePanics(line) ==
    LET elements == split_whitespace(line) IN
    \/ Len(elements) < 2
    \/ from_str(elements[2]) = "Err"

\* Lines 76-87: the record of one line.
LineBox(path, line) ==
    LET elements == split_whitespace(line) IN
    [path |-> path, name |-> elements[1],
     initial_status |-> from_str(elements[2])]

\* Lines 60-92: a failed status query is returned by `?'; otherwise the
\* lines of the box section are mapped to records, in order, and a line
\* the closure panics on ends get_boxes with that panic.
get_boxes(directory, exit, stdout) ==
    IF status_checked("status", exit) # "Ok" THEN ErrBoxes
    ELSE LET lines == take_while(skip(stdout, 2)) IN
         IF \E i \in DOMAIN lines : LinePanics(lines[i]) THEN PanicBoxes
         ELSE OkBoxes([i \in DOMAIN lines |-> LineBox(directory, lines[i])])

\* The status listings get_boxes is applied to on its own: up to two header
\* lines, then up to MaxLines more lines.
HeaderLines == {LineHeader, LineEmpty, LineOneToken}

StatusLines ==
    {LinePowerOff, LineRunningCr, LineSaved, LineAborted, LineNotCreated,
     LineOneToken, LineBlank, LineEmpty, LineCr, LineUpper, LineShout,
     LineCapital, LineCrSaved}

\* Longest box section with what follows it, in lines.
MaxLines == 3

Listings ==
    {<< >>} \cup { << h >> : h \in HeaderLines }
    \cup { << hb[1], hb[2] >> \o hb[3] :
             hb \in HeaderLines \X HeaderLines
                    \X UNION { [1..n -> StatusLines] : n \in 0..MaxLines } }

\* get_boxes applied to one status output.
GetBoxes ==
    /\ pc = "parse_start"
    /\ parsed' = get_boxes(vagrant_box.path, status_exit, status_out)
    /\ calls' = Append(calls,
           CommandCall(<< "status" >>, vagrant_box.path, status_exit))
    /\ ret' = parsed'.kind
    /\ pc' = "done"
    /\ UNCHANGED << config, collectVars, boxVars, upgradeVars,
                    status_exit, status_out >>

InitParse ==
    /\ entry = "get_boxes"
    /\ pc = "parse_start"
    /\ tool_found = TRUE
    /\ dry_run = FALSE
    /\ power_on = "None"
    /\ always_suspend = "None"
    /\ yes = FALSE
    /\ \E d \in Directories :
         vagrant_box = [path |-> d, name |-> "default",
                        initial_status |-> "Running"]
    /\ box_state = "Running"
    /\ poweron = "None"
    /\ ssh_result = "Pending"
    /\ calls = << >>
    /\ ret = "Pending"
    /\ outdated = << >>
    /\ captures = << >>
    /\ found = FALSE
    /\ printed = ""
    /\ directories = NoDirectories
    /\ remaining = << >>
    /\ result = << >>
    /\ logged = << >>
    /\ discoveries = << >>
    /\ status_exit \in ExitCodes
    /\ status_out \in Listings
    /\ parsed = NotParsed

----------------------------------------------------------------------------
(* collect_boxes                                                           *)

\* The status outputs the directories of collect_boxes answer with.
CollectListings ==
    { << LineHeader, LineEmpty, LinePowerOff, LineSaved, LineEmpty >>,
      << LineHeader, LineCr, LineRunningCr, LineCr, LineEmpty >>,
      << LineHeader, LineEmpty, LineEmpty >>,
      << LineHeader, LineEmpty, LinePowerOff, LineNotCreated, LineEmpty >>,
      << LineHeader, LineEmpty, LineOneToken, LineEmpty >> }

\* Most directories configured.
MaxDirs == 2

DirectoryLists == UNION { [1..n -> Directories] : n \in 0..MaxDirs }

\* A collect_boxes that resolves the tool before it asks for directories.
CollectRequire_ToolFirst ==
    IF ~tool_found THEN "ToolNotFound"
    ELSE IF ~directories.some THEN "ConfigError"
    ELSE "Ok"

\* Lines 154-160: the two `?' at the head of collect_boxes: the configured
\* directories are required first, then the tool.
CollectRequire ==
    IF ~directories.some THEN "ConfigError"
    ELSE IF ~tool_found THEN "ToolNotFound"
    ELSE "Ok"

\* Lines 154-165: the requirements, then the loop over the directories.
CollectEnter ==
    /\ pc = "collect_start"
    /\ IF CollectRequire # "Ok"
         THEN /\ ret' = CollectRequire
              /\ pc' = "done"
              /\ remaining' = remaining
         ELSE /\ ret' = ret
              /\ pc' = "collect_loop"
              /\ remaining' = directories.dirs
    /\ result' = << >>
    /\ UNCHANGED << notCollect, logged, discoveries, calls >>

\* Lines 167-174: one turn of the loop: the status query of one directory
\* and its parse; Ok appends the records, Err is logged, and a panic of
\* get_boxes unwinds through collect_boxes.
CollectDirectory ==
    /\ pc = "collect_loop"
    /\ remaining # << >>
    /\ \E exit \in ExitCodes, stdout \in CollectListings :
         LET directory == Head(remaining)
             boxes == get_boxes(directory, exit, stdout) IN
         /\ calls' = Append(calls,
                CommandCall(<< "status" >>, directory, exit))
         /\ discoveries' = Append(discoveries,
                [directory |-> directory, exit |-> exit, stdout |-> stdout,
                 kind |-> boxes.kind, boxes |-> boxes.boxes])
         /\ CASE boxes.kind = "Ok" ->
                   /\ result' = result \o boxes.boxes
                   /\ UNCHANGED << logged, ret, pc >>
              [] boxes.kind = "Err" ->
                   /\ logged' = Append(logged, directory)
                   /\ UNCHANGED << result, ret, pc >>
              [] OTHER ->
                   /\ ret' = "Panic"
                   /\ pc' = "done"
                   /\ UNCHANGED << result, logged >>
    /\ remaining' = Tail(remaining)
    /\ UNCHANGED notCollect

\* Line 176: Ok(result).
CollectReturn ==
    /\ pc = "collect_loop"
    /\ remaining = << >>
    /\ ret' = "Ok"
    /\ pc' = "done"
    /\ UNCHANGED << notCollect, collectVars, calls >>

InitCollect ==
    /\ entry = "collect_boxes"
    /\ pc = "collect_start"
    /\ tool_found \in BOOLEAN
    /\ dry_run \in BOOLEAN
    /\ power_on = "None"
    /\ always_suspend = "None"
    /\ yes = FALSE
    /\ vagrant_box = [path |-> << "vm", "a" >>, name |-> "default",
                      initial_status |-> "Running"]
    /\ box_state = "Running"
    /\ poweron = "None"
    /\ ssh_result = "Pending"
    /\ calls = << >>
    /\ ret = "Pending"
    /\ outdated = << >>
    /\ captures = << >>
    /\ found = FALSE
    /\ printed = ""
    /\ directories \in
         {NoDirectories} \cup { SomeDirectories(ds) : ds \in DirectoryLists }
    /\ remaining = << >>
    /\ result = << >>
    /\ logged = << >>
    /\ discoveries = << >>
    /\ status_exit = 0
    /\ status_out = << >>
    /\ parsed = NotParsed

----------------------------------------------------------------------------
(* upgrade_vagrant_boxes                                                   *)

\* The output of `vagrant box outdated --global' is a sequence of lines and
\* a line a sequence of tokens; the quote character is a token of its own,
\* and consecutive tokens are separated as in the tool's phrasing
\* (* 'box' for 'provider' is outdated).
ReportLines ==
    { << "*", "'", "ubuntu", "'", "for", "'", "virtualbox", "'",
         "is", "outdated" >>,
      << "*", "'", "debian", "'", "for", "'", "libvirt", "'",
         "is", "outdated", "!", "Latest", "12" >>,
      << "*", "'", "centos", "'", "for", "'", "virtualbox", "'",
         "(v7)", "is", "up", "to", "date" >>,
      << "Checking", "for", "updates" >>,
      << >> }

\* Longest report, in lines.
MaxReport == 3

Reports == UNION { [1..n -> ReportLines] : n \in 0..MaxReport }

Min(S) == CHOOSE x \in S : \A y \in S : x <= y

\* Ends of the first group when the match starts at i: a closing quote
\* followed by for and an opening quote.
BoxEnds(line, i) ==
    { j \in (i + 2)..(Len(line) - 2) :
        line[j] = "'" /\ line[j + 1] = "for" /\ line[j + 2] = "'" }

\* Ends of the second group when the first one ended at j: a closing quote
\* followed by `is outdated'.
ProviderEnds(line, j) ==
    { k \in (j + 3)..(Len(line) - 2) :
        line[k] = "'" /\ line[k + 1] = "is" /\ line[k + 2] = "outdated" }

\* The regex \* '(.*?)' for '(.*?)' is outdated matches at token i.
MatchesAt(line, i) ==
    /\ i + 1 <= Len(line)
    /\ line[i] = "*" /\ line[i + 1] = "'"
    /\ \E j \in BoxEnds(line, i) : ProviderEnds(line, j) # {}

\* The match at token i: both groups are lazy, so each ends as early as
\* the rest of the pattern allows.
MatchAt(line, i) ==
    LET j == Min({ e \in BoxEnds(line, i) : ProviderEnds(line, e) # {} })
        k == Min(ProviderEnds(line, j))
    IN  [box |-> SubSeq(line, i + 2, j - 1),
         provider |-> SubSeq(line, j + 3, k - 1),
         last |-> k + 2]

\* captures_iter on one line: the leftmost match, then the next one after
\* its end (a `.' never matches a line break, so no match spans two lines).
RECURSIVE LineCaptures(_, _)
LineCaptures(line, from) ==
    LET starts == { i \in from..Len(line) : MatchesAt(line, i) } IN
    IF starts = {} THEN << >>
    ELSE LET m == MatchAt(line, Min(starts)) IN
         << [box |-> m.box, provider |-> m.provider] >>
             \o LineCaptures(line, m.last + 1)

\* re.captures_iter(&outdated.stdout): the matches of every line, in order.
RECURSIVE captures_iter(_)
captures_iter(text) ==
    IF text = << >> THEN << >>
    ELSE LineCaptures(Head(text), 1) \o captures_iter(Tail(text))

\* Line 213: resolve the tool.
UpgradeEnter ==
    /\ pc = "upgrade_start"
    /\ IF ~tool_found
         THEN /\ ret' = "ToolNotFound"
              /\ pc' = "done"
         ELSE /\ ret' = ret
              /\ pc' = "upgrade_outdated"
    /\ UNCHANGED << notUpgrade, upgradeVars, calls >>

\* Lines 216-222: the outdated query; `?' returns its failure, otherwise
\* the matches of its output are iterated.
UpgradeOutdated ==
    /\ pc = "upgrade_outdated"
    /\ \E exit \in ExitCodes, text \in Reports :
         /\ calls' = Append(calls,
                CommandCall(<< "box", "outdated", "--global" >>, << >>, exit))
         /\ IF status_checked("outdated", exit) # "Ok"
              THEN /\ ret' = status_checked("outdated", exit)
                   /\ pc' = "done"
                   /\ UNCHANGED << outdated, captures >>
              ELSE /\ ret' = ret
                   /\ pc' = "upgrade_loop"
                   /\ outdated' = text
                   /\ captures' = captures_iter(text)
    /\ found' = FALSE
    /\ UNCHANGED << notUpgrade, printed >>

\* A loop that returns the failure of an update.
UpdateResult_Propagates(outcome) == outcome

\* Lines 225-232: `let _ =' discards the result of the update.
UpdateResult(outcome) == "Ok"

\* Lines 223-233: one turn of the loop, the update of one match.
UpgradeUpdate ==
    /\ pc = "upgrade_loop"
    /\ captures # << >>
    /\ found' = TRUE
    /\ \E exit \in ExecutorExits :
         LET ele == Head(captures)
             r == UpdateResult(status_checked("update", exit)) IN
         /\ calls' = Append(calls,
                Call(<< "box", "update", "--box", ele.box,
                        "--provider", ele.provider >>, << >>, exit))
         /\ IF r # "Ok"
              THEN /\ ret' = r
                   /\ pc' = "done"
              ELSE /\ ret' = ret
                   /\ pc' = pc
    /\ captures' = Tail(captures)
    /\ UNCHANGED << notUpgrade, outdated, printed >>

\* A prune that is issued whether or not anything was outdated.
PruneWanted_Always(f) == TRUE

\* Line 235: the prune runs only when the loop found a match.
PruneWanted(f) == f

\* A prune whose result is dropped.
PruneResult_Discarded(outcome) == "Ok"

\* Line 241: `.status_checked()?' returns the failure of the prune.
PruneResult(outcome) == outcome

\* Lines 235-244: after the loop, the message or the prune, whose failure
\* `?' returns.
UpgradeFinish ==
    /\ pc = "upgrade_loop"
    /\ captures = << >>
    /\ IF ~PruneWanted(found)
         THEN /\ printed' = "No outdated boxes"
              /\ ret' = "Ok"
              /\ calls' = calls
         ELSE \E exit \in ExecutorExits :
                /\ calls' = Append(calls,
                       Call(<< "box", "prune" >>, << >>, exit))
                /\ ret' = PruneResult(status_checked("prune", exit))
                /\ printed' = printed
    /\ pc' = "done"
    /\ UNCHANGED << notUpgrade, outdated, captures, found >>


InitUpgrade ==
    /\ entry = "upgrade_vagrant_boxes"
    /\ pc = "upgrade_start"
    /\ tool_found \in BOOLEAN
    /\ dry_run \in BOOLEAN
    /\ power_on = "None"
    /\ always_suspend = "None"
    /\ yes = FALSE
    /\ vagrant_box = [path |-> << "vm", "a" >>, name |-> "default",
                      initial_status |-> "Running"]
    /\ box_state = "Running"
    /\ poweron = "None"
    /\ ssh_result = "Pending"
    /\ calls = << >>
    /\ ret = "Pending"
    /\ outdated = << >>
    /\ captures = << >>
    /\ found = FALSE
    /\ printed = ""
    /\ directories = NoDirectories
    /\ remaining = << >>
    /\ result = << >>
    /\ logged = << >>
    /\ discoveries = << >>
    /\ status_exit = 0
    /\ status_out = << >>
    /\ parsed = NotParsed

----------------------------------------------------------------------------
Init == InitBox \/ InitUpgrade \/ InitCollect \/ InitParse

Next ==
    \/ BoxEnter \/ BoxCreate \/ BoxSsh \/ BoxDrop
    \/ UpgradeEnter \/ UpgradeOutdated \/ UpgradeUpdate \/ UpgradeFinish
    \/ CollectEnter \/ CollectDirectory \/ CollectReturn
    \/ GetBoxes

Spec == Init /\ [][Next]_vars

----------------------------------------------------------------------------
(* Reading the invocation log                                              *)

Subcommand(c) == c.args[1]
IsPowerUp(c) == Subcommand(c) \in {"up", "resume"}
IsRestore(c) == Subcommand(c) \in {"halt", "suspend"}
IsSsh(c) == Subcommand(c) = "ssh"

PowerUps == {i \in DOMAIN calls : IsPowerUp(calls[i])}
Restores == {i \in DOMAIN calls : IsRestore(calls[i])}
Sshs == {i \in DOMAIN calls : IsSsh(calls[i])}

PowerUpSucceeded == \E i \in PowerUps : calls[i].exit = 0
RunningBox == entry = "topgrade_vagrant_box"
Returned == pc = "done"
InitiallyOff == vagrant_box.initial_status \in {"PowerOff", "Saved", "Aborted"}

----------------------------------------------------------------------------
(* topgrade_vagrant_box: the claims                                        *)

\* C1: in every call of topgrade_vagrant_box whose power-up invocation
\* succeeded (so that a guard was created), exactly one restoration
\* invocation (halt or suspend) has been issued when the call returns,
\* whether the in-guest command succeeded or failed; there are never two,
\* and while the guard is alive there is none yet.
C1_RestoredExactlyOnce ==
    RunningBox =>
      /\ Cardinality(Restores) <= 1
      /\ (poweron = "Some") => (PowerUpSucceeded /\ Restores = {})
      /\ (Returned /\ PowerUpSucceeded) =>
            (Cardinality(Restores) = 1 /\ poweron = "None")
      /\ (Restores # {}) => PowerUpSucceeded

C1_Witness ==
    /\ RunningBox /\ Returned /\ PowerUpSucceeded
    /\ ssh_result = "Err(ssh)"
    /\ Cardinality(Restores) = 1

\* C2 as stated: for a box initially PowerOff, Saved or Aborted, when the
\* call has ended the box is in its initial state again, or Saved when
\* always-suspend is enabled, and it is never Running.
C2_Original ==
    (RunningBox /\ Returned /\ InitiallyOff) =>
      /\ \/ box_state = vagrant_box.initial_status
         \/ (always_suspend = "Some(true)" /\ box_state = "Saved")
      /\ box_state # "Running"

\* C2 amended: for a box initially PowerOff, Saved or Aborted, when the
\* call has ended: with no invocation issued (skip, tool not found) or in a
\* dry run the box is in its initial state; when the restoration invocation
\* exited zero the box is Saved if it was Saved or always-suspend is
\* enabled and PowerOff otherwise (an Aborted box ends PowerOff); and the
\* box is Running only if a power transition of the call exited non-zero.
C2_Amended ==
    (RunningBox /\ Returned /\ InitiallyOff) =>
      /\ (calls = << >> \/ dry_run) => box_state = vagrant_box.initial_status
      /\ (~dry_run /\ \E i \in Restores : calls[i].exit = 0) =>
            box_state = IF \/ vagrant_box.initial_status = "Saved"
                           \/ always_suspend = "Some(true)"
                          THEN "Saved" ELSE "PowerOff"
      /\ (box_state = "Running") =>
            \E i \in PowerUps \cup Restores : calls[i].exit # 0

C2_Witness ==
    /\ RunningBox /\ Returned
    /\ vagrant_box.initial_status = "Aborted"
    /\ \E i \in Restores : calls[i].exit = 0
    /\ box_state = "PowerOff"

\* C3 as stated: a call on a box that is not Running, with the power-on
\* policy disabled, returns SkipStep and issues no process invocation.
C3_Original ==
    (RunningBox /\ InitiallyOff /\ power_on = "Some(false)") =>
      /\ calls = << >>
      /\ Returned => ret = "SkipStep"

\* C3 amended: provided the tool is resolved, a call on a box that is not
\* Running, with the power-on policy disabled, returns SkipStep (not a
\* failure), creates no guard and issues no process invocation.
C3_Amended ==
    (RunningBox /\ tool_found /\ InitiallyOff /\ power_on = "Some(false)") =>
      /\ calls = << >>
      /\ poweron = "None"
      /\ Returned => (ret = "SkipStep" /\ ret \notin Errors)

C3_Witness ==
    /\ RunningBox /\ Returned /\ tool_found
    /\ vagrant_box.initial_status = "Saved"
    /\ power_on = "Some(false)"
    /\ ret = "SkipStep"
    /\ calls = << >>

\* C4: a call on a box that is initially Running never creates a guard and
\* never issues a power transition, whatever the power-on and
\* always-suspend policies: every invocation it issues is the in-guest ssh
\* command, issued once when the tool is resolved.
C4_RunningBoxNoGuard ==
    (RunningBox /\ vagrant_box.initial_status = "Running") =>
      /\ poweron = "None"
      /\ pc \notin {"box_create", "box_drop"}
      /\ ret # "Panic"
      /\ \A i \in DOMAIN calls : IsSsh(calls[i])
      /\ Len(calls) <= 1
      /\ (Returned /\ tool_found) => Len(calls) = 1
      /\ box_state = "Running"

C4_Witness ==
    /\ RunningBox /\ Returned
    /\ vagrant_box.initial_status = "Running"
    /\ power_on = "Some(false)"
    /\ always_suspend = "Some(true)"
    /\ Len(calls) = 1 /\ IsSsh(calls[1])

\* C5: when the power-up invocation exits non-zero the call returns that
\* failure, no guard is created, and neither the in-guest ssh command nor a
\* restoration is issued: the power-up is the only invocation of the call.
C5_PowerUpFailureStops ==
    (RunningBox /\ \E i \in PowerUps : calls[i].exit # 0) =>
      /\ Returned
      /\ ret \in {"Err(up)", "Err(resume)"}
      /\ poweron = "None"
      /\ Len(calls) = 1

C5_Witness ==
    /\ RunningBox /\ Returned
    /\ Len(calls) = 1 /\ IsPowerUp(calls[1]) /\ calls[1].exit = 1
    /\ ret = "Err(up)"

\* C6: once the in-guest ssh command was reached, the call returns exactly
\* the result of that command, whether the restoration that follows
\* succeeds or fails.
C6_ResultIsSshResult ==
    (RunningBox /\ Returned) =>
      \A i \in Sshs :
        ret = IF calls[i].exit = 0 THEN "Ok" ELSE "Err(ssh)"

\* The in-guest command succeeded and the restoration failed.
C6_Witness ==
    /\ RunningBox /\ Returned
    /\ \E i \in Sshs : calls[i].exit = 0
    /\ \E i \in Restores : calls[i].exit # 0
    /\ ret = "Ok"

----------------------------------------------------------------------------
(* upgrade_vagrant_boxes: the claims                                       *)

Upgrading == entry = "upgrade_vagrant_boxes"

IsBoxCall(c, verb) ==
    Len(c.args) >= 2 /\ c.args[1] = "box" /\ c.args[2] = verb

UpdateCalls == SelectSeq(calls, LAMBDA c : IsBoxCall(c, "update"))
Prunes == {i \in DOMAIN calls : IsBoxCall(calls[i], "prune")}

\* The outdated query was issued and exited zero.
QuerySucceeded ==
    /\ calls # << >>
    /\ IsBoxCall(calls[1], "outdated")
    /\ calls[1].exit = 0

\* A report line that is an entry: * 'box' for 'provider' is outdated,
\* whatever follows it.
IsEntryLine(l) ==
    /\ Len(l) >= 10
    /\ l[1] = "*" /\ l[2] = "'" /\ l[4] = "'" /\ l[5] = "for"
    /\ l[6] = "'" /\ l[8] = "'" /\ l[9] = "is" /\ l[10] = "outdated"

EntryLines == SelectSeq(outdated, IsEntryLine)

UpdateArgs(l) ==
    << "box", "update", "--box", << l[3] >>, "--provider", << l[7] >> >>

\* C7: for every outdated report, when upgrade_vagrant_boxes has
\* returned: with k >= 1 entries in the report exactly k update calls were
\* issued, the n-th with the box and provider of the n-th entry, followed
\* by exactly one prune call, which is the last call; with no entry there
\* is no update call, no prune call, and "No outdated boxes" was printed.
\* A prune is never issued while matches remain, and lines that are not
\* entries cause no update call.
C7_UpdatesThenOnePrune ==
    (Upgrading /\ QuerySucceeded) =>
      /\ \A p \in Prunes : p = Len(calls) /\ captures = << >> /\ Returned
      /\ Returned =>
           /\ Len(UpdateCalls) = Len(EntryLines)
           /\ \A n \in 1..Len(EntryLines) :
                UpdateCalls[n].args = UpdateArgs(EntryLines[n])
           /\ IF Len(EntryLines) >= 1
                THEN /\ Cardinality(Prunes) = 1
                     /\ printed = ""
                     /\ Len(calls) = Len(EntryLines) + 2
                ELSE /\ Prunes = {}
                     /\ printed = "No outdated boxes"
                     /\ Len(calls) = 1

\* Two entries and a line that is not one: two updates, then the prune.
C7_Witness ==
    /\ Upgrading /\ QuerySucceeded /\ Returned
    /\ Len(outdated) = 3 /\ Len(EntryLines) = 2
    /\ EntryLines[1] # EntryLines[2]
    /\ Len(UpdateCalls) = 2
    /\ Prunes = {4}

\* C8: a failing update call never ends the pass: whatever subset of the
\* update calls exits non-zero, the failure is not returned, every entry
\* gets its update call and the prune is still issued once, last.
C8_UpdateFailureTolerated ==
    (Upgrading /\ QuerySucceeded) =>
      /\ ret # "Err(update)"
      /\ (pc = "upgrade_loop") =>
            Len(UpdateCalls) + Len(captures) = Len(EntryLines)
      /\ (Returned /\ \E n \in DOMAIN UpdateCalls : UpdateCalls[n].exit # 0) =>
            /\ Len(UpdateCalls) = Len(EntryLines)
            /\ Prunes = {Len(calls)}

\* Every update of a report of two or more entries failed.
C8_Witness ==
    /\ Upgrading /\ QuerySucceeded /\ Returned
    /\ Len(EntryLines) >= 2
    /\ Len(UpdateCalls) = Len(EntryLines)
    /\ \A n \in DOMAIN UpdateCalls : UpdateCalls[n].exit # 0
    /\ Prunes = {Len(calls)}

----------------------------------------------------------------------------
(* collect_boxes and get_boxes: the claims                                 *)

Collecting == entry = "collect_boxes"
Parsing == entry = "get_boxes"

\* The records of the discoveries that succeeded, in the order made.
RECURSIVE Discovered(_)
Discovered(ds) ==
    IF ds = << >> THEN << >>
    ELSE (IF Head(ds).kind = "Ok" THEN Head(ds).boxes ELSE << >>)
             \o Discovered(Tail(ds))

\* The directories whose discovery did not succeed, in the order visited.
RECURSIVE Failed(_)
Failed(ds) ==
    IF ds = << >> THEN << >>
    ELSE (IF Head(ds).kind # "Ok" THEN << Head(ds).directory >> ELSE << >>)
             \o Failed(Tail(ds))

\* C9: with at least one directory configured and the tool resolved,
\* collect_boxes never fails: when it has ended it returned Ok, every
\* configured directory was queried in order, every directory whose
\* discovery failed (non-zero exit or malformed line) was logged and
\* contributed no record, and the list holds the records of the
\* directories that succeeded, in configured order.
C9_DirectoryFailureTolerated ==
    (Collecting /\ tool_found /\ directories.some
        /\ directories.dirs # << >> /\ Returned) =>
      /\ ret = "Ok"
      /\ [i \in DOMAIN discoveries |-> discoveries[i].directory]
            = directories.dirs
      /\ logged = Failed(discoveries)
      /\ result = Discovered(discoveries)

\* The keywords the claim counts as recognized (in either spelling).
RecognizedKeywords ==
    {"poweroff", "running", "saved", "aborted", "PowerOff", "RUNNING", "Saved"}

\* A line with fewer than two tokens or an unrecognized status keyword.
Malformed(line) ==
    LET words == SelectSeq(line, LAMBDA piece : piece \notin {" ", "\r"}) IN
    \/ Len(words) < 2
    \/ words[2] \notin RecognizedKeywords

\* Index of the line that ends the box section (past the end if none).
SectionEnd(text) ==
    Min({ i \in 3..(Len(text) + 3) :
            i > Len(text) \/ text[i] = << >> \/ text[i][1] = "\r" })

\* A malformed line among the retained box lines.
HasMalformedLine(text) ==
    \E i \in 3..(SectionEnd(text) - 1) : Malformed(text[i])

\* C10: parsing a status listing in which a retained box line has an
\* unrecognized status keyword or fewer than two tokens fails with an
\* error result (Err) that is propagated to the caller; the line is not
\* skipped and no partial list is returned.
C10_MalformedLineIsErr ==
    (Parsing /\ Returned /\ status_exit = 0 /\ HasMalformedLine(status_out)) =>
      /\ parsed.kind = "Err"
      /\ parsed.boxes = << >>

\* The well-formed box lines, with the name and the status each one states.
WellFormedLines == {LinePowerOff, LineRunningCr, LineSaved, LineAborted}

StatedName(line) ==
    CASE line = LinePowerOff  -> "default"
      [] line = LineRunningCr -> "web"
      [] line = LineSaved     -> "db"
      [] line = LineAborted   -> "old"

StatedStatus(line) ==
    CASE line = LinePowerOff  -> "PowerOff"
      [] line = LineRunningCr -> "Running"
      [] line = LineSaved     -> "Saved"
      [] line = LineAborted   -> "Aborted"

\* Two header lines, then well-formed box lines only, then one blank line.
PlainListing(text) ==
    /\ Len(text) >= 3
    /\ text[Len(text)] \in {LineEmpty, LineCr}
    /\ \A i \in 3..(Len(text) - 1) : text[i] \in WellFormedLines

\* C11: parsing the status listing of directory d that is two header
\* lines, N well-formed box lines and a trailing blank line gives exactly N
\* records, in file order, the i-th with the name and the status of the
\* i-th box line, and every record with location d.
C11_PlainListingParsed ==
    (Parsing /\ Returned /\ status_exit = 0 /\ PlainListing(status_out)) =>
      /\ parsed.kind = "Ok"
      /\ Len(parsed.boxes) = Len(status_out) - 3
      /\ \A i \in 1..(Len(status_out) - 3) :
           parsed.boxes[i] =
             [path |-> vagrant_box.path,
              name |-> StatedName(status_out[i + 2]),
              initial_status |-> StatedStatus(status_out[i + 2])]

\* Two different box lines under a header, parsed for directory vm/b.
C11_Witness ==
    /\ Parsing /\ Returned /\ status_exit = 0 /\ PlainListing(status_out)
    /\ Len(status_out) = 5
    /\ status_out[3] # status_out[4]
    /\ vagrant_box.path = << "vm", "b" >>
    /\ Len(parsed.boxes) = 2

----------------------------------------------------------------------------
(* TemporaryPowerOn: the subcommands                                       *)

\* C12: the power-up invocation is `up' for a box initially PowerOff or
\* Aborted and `resume' for one initially Saved, whatever the
\* always-suspend policy; it names the box and runs in the box's
\* directory, and it is the first invocation of a call that issues any.
C12_PowerUpSubcommand ==
    (RunningBox /\ InitiallyOff) =>
      /\ \A i \in PowerUps :
           /\ calls[i].args =
                << IF vagrant_box.initial_status = "Saved"
                     THEN "resume" ELSE "up",
                   vagrant_box.name >>
           /\ calls[i].dir = vagrant_box.path
      /\ (calls # << >>) => 1 \in PowerUps

\* A Saved box is resumed although always-suspend is enabled.
C12_Witness ==
    /\ RunningBox /\ Returned
    /\ vagrant_box.initial_status = "Saved"
    /\ always_suspend = "Some(true)"
    /\ calls # << >>
    /\ calls[1].args = << "resume", vagrant_box.name >>
    /\ calls[1].dir = vagrant_box.path

\* C13: the restoration invocation is `suspend' for every initial status
\* when always-suspend is enabled, and otherwise (disabled or unset)
\* `halt' for PowerOff and Aborted and `suspend' for Saved, whether the
\* in-guest command succeeded or failed; it is the last invocation of a
\* call whose power-up succeeded.
C13_RestoreSubcommand ==
    (RunningBox /\ InitiallyOff) =>
      /\ \A i \in Restores :
           Subcommand(calls[i]) =
             IF always_suspend = "Some(true)" THEN "suspend"
             ELSE IF vagrant_box.initial_status = "Saved" THEN "suspend"
             ELSE "halt"
      /\ (Returned /\ PowerUpSucceeded) => Len(calls) \in Restores

\* A box that was off is halted after a failed in-guest command, the
\* policy being unset.
C13_Witness ==
    /\ RunningBox /\ Returned
    /\ vagrant_box.initial_status = "Aborted"
    /\ always_suspend = "None"
    /\ ssh_result = "Err(ssh)"
    /\ \E i \in Restores : Subcommand(calls[i]) = "halt"

----------------------------------------------------------------------------
(* collect_boxes: its requirements                                         *)

----------------------------------------------------------------------------
(* get_boxes: keywords and the extent of the box section                   *)

\* The tokens of a line.
Words(line) == SelectSeq(line, LAMBDA piece : piece \notin {" ", "\r"})

\* The variant a keyword spells, in the spellings of RecognizedKeywords.
SpelledVariant(keyword) ==
    CASE keyword \in {"poweroff", "PowerOff"} -> "PowerOff"
      [] keyword \in {"running", "RUNNING"}   -> "Running"
      [] keyword \in {"saved", "Saved"}       -> "Saved"
      [] keyword = "aborted"                  -> "Aborted"

LowerKeywords == {"poweroff", "running", "saved", "aborted"}

\* The indices of the lines between the header and the end of the section.
Retained(text) == 3..(SectionEnd(text) - 1)

\* C15 as stated: the keyword is matched whatever its case: a listing
\* whose retained lines all spell a variant, in lower or upper case, is
\* parsed, each line giving the variant it spells.
C15_Original ==
    (Parsing /\ Returned /\ status_exit = 0
        /\ ~HasMalformedLine(status_out)) =>
      /\ parsed.kind = "Ok"
      /\ \A i \in Retained(status_out) :
           parsed.boxes[i - 2].initial_status
             = SpelledVariant(Words(status_out[i])[2])

\* C15 amended: the keyword is matched exactly against the lower-case
\* names of the variants: poweroff, running, saved and aborted give their
\* variant, and a retained line that spells a variant in another case
\* (PowerOff, RUNNING, Saved) is rejected, so that the listing is not
\* parsed.
C15_Amended ==
    (Parsing /\ Returned /\ status_exit = 0) =>
      /\ (\E i \in Retained(status_out) :
             /\ Len(Words(status_out[i])) >= 2
             /\ Words(status_out[i])[2] \in RecognizedKeywords \ LowerKeywords)
           => parsed.kind = "Panic"
      /\ (\A i \in Retained(status_out) :
             /\ Len(Words(status_out[i])) >= 2
             /\ Words(status_out[i])[2] \in LowerKeywords)
           => parsed.kind = "Ok"
      /\ (parsed.kind = "Ok") =>
           \A i \in Retained(status_out) :
             /\ Words(status_out[i])[2] \in LowerKeywords
             /\ parsed.boxes[i - 2].initial_status
                  = SpelledVariant(Words(status_out[i])[2])

\* A lower-case line is followed by one that spells RUNNING.
C15_Witness ==
    /\ Parsing /\ Returned /\ status_exit = 0
    /\ Len(status_out) >= 4
    /\ status_out[3] = LineSaved
    /\ status_out[4] = LineShout
    /\ parsed.kind = "Panic"

\* A line the parser rejects: fewer than two tokens, or a second token
\* that is not the lower-case name of a variant.
Rejected(line) ==
    \/ Len(Words(line)) < 2
    \/ Words(line)[2] \notin LowerKeywords

\* C16: the first two lines of the status output give no record and are
\* not parsed, whatever they hold; the box section ends at the first later
\* line that is empty or begins with a carriage return; every line
\* between is parsed and gives a record, while the ending line and all
\* lines after it are not parsed: they give no record and cannot make
\* the parse fail.
C16_SectionExtent ==
    (Parsing /\ Returned /\ status_exit = 0) =>
      /\ (parsed.kind = "Ok") =>
            /\ Len(parsed.boxes) = Cardinality(Retained(status_out))
            /\ \A i \in Retained(status_out) :
                 parsed.boxes[i - 2].name = Words(status_out[i])[1]
      /\ (parsed.kind # "Ok") <=>
            \E i \in Retained(status_out) : Rejected(status_out[i])

\* A header that is no header, one box line, the end of the section and a
\* malformed line after it: one record.
C16_Witness ==
    /\ Parsing /\ Returned /\ status_exit = 0
    /\ Len(status_out) = 5
    /\ status_out[1] = LineOneToken
    /\ status_out[4] \in {LineCr, LineCrSaved}
    /\ status_out[5] = LineNotCreated
    /\ parsed.kind = "Ok"
    /\ Len(parsed.boxes) = 1

----------------------------------------------------------------------------
(* Order of the invocations, tool resolution, result of the upgrade        *)

\* C17: in a call on a box that is not initially Running the invocations
\* come in the order power-up, in-guest ssh command, restoration, each at
\* most once: the ssh command only after a power-up that exited zero, the
\* restoration only after the ssh command has returned.
C17_InvocationOrder ==
    (RunningBox /\ InitiallyOff) =>
      /\ Len(calls) <= 3
      /\ \A i \in DOMAIN calls :
           /\ IsPowerUp(calls[i]) \/ IsSsh(calls[i]) \/ IsRestore(calls[i])
           /\ IsPowerUp(calls[i]) => i = 1
           /\ IsSsh(calls[i]) =>
                (i = 2 /\ IsPowerUp(calls[1]) /\ calls[1].exit = 0)
           /\ IsRestore(calls[i]) => (i = 3 /\ IsSsh(calls[2]))
      /\ (pc = "box_ssh") => Len(calls) = 1
      /\ (pc = "box_drop") => Len(calls) = 2

\* All three invocations were issued, the in-guest command having failed.
C17_Witness ==
    /\ RunningBox /\ InitiallyOff /\ Returned
    /\ Len(calls) = 3
    /\ IsPowerUp(calls[1]) /\ IsSsh(calls[2]) /\ IsRestore(calls[3])
    /\ calls[2].exit # 0

EntryPoints ==
    {"collect_boxes", "topgrade_vagrant_box", "upgrade_vagrant_boxes"}

\* C18 as stated: when the tool cannot be resolved, each of the three
\* entry points returns the tool-not-found failure and issues no process
\* invocation.
C18_Original ==
    (entry \in EntryPoints /\ ~tool_found) =>
      /\ calls = << >>
      /\ Returned => ret = "ToolNotFound"

\* C18 amended: when the tool cannot be resolved no entry point issues a
\* process invocation; topgrade_vagrant_box (for every box status and
\* power-on policy, so before the skip decision) and upgrade_vagrant_boxes
\* return the tool-not-found failure, and so does collect_boxes when
\* directories are configured; with none configured collect_boxes returns
\* the configuration error, which it checks first.
C18_Amended ==
    (entry \in EntryPoints /\ ~tool_found) =>
      /\ calls = << >>
      /\ poweron = "None"
      /\ Returned =>
           ret = IF Collecting /\ ~directories.some
                   THEN "ConfigError" ELSE "ToolNotFound"

\* A powered-off box, the power-on policy disabled and no tool:
\* tool-not-found, not the skip.
C18_Witness ==
    /\ RunningBox /\ Returned /\ ~tool_found
    /\ vagrant_box.initial_status = "PowerOff"
    /\ power_on = "Some(false)"
    /\ ret = "ToolNotFound"
    /\ calls = << >>

\* C19: the result of upgrade_vagrant_boxes is decided by the outdated
\* query and the prune alone: it is a failure when the query did not
\* succeed (then there is no update and no prune) or when the prune exited
\* non-zero, and Ok otherwise, also when every update failed and when
\* there was nothing to update.
C19_ResultOfUpgrade ==
    (Upgrading /\ Returned) =>
      /\ ~QuerySucceeded =>
            /\ ret \in {"ToolNotFound", "Err(outdated)"}
            /\ UpdateCalls = << >> /\ Prunes = {}
      /\ (QuerySucceeded /\ \E p \in Prunes : calls[p].exit # 0) =>
            ret = "Err(prune)"
      /\ (QuerySucceeded /\ \A p \in Prunes : calls[p].exit = 0) =>
            ret = "Ok"

\* Every update failed, the prune succeeded: Ok.
C19_Witness ==
    /\ Upgrading /\ Returned /\ QuerySucceeded
    /\ UpdateCalls # << >>
    /\ \A n \in DOMAIN UpdateCalls : UpdateCalls[n].exit # 0
    /\ \E p \in Prunes : calls[p].exit = 0
    /\ ret = "Ok"

====
